---- MODULE Spec2Model ----
(***************************************************************************)
(* A model of the Gotham middleware AWSSigV4Verifier (src/lib.rs).         *)
(*                                                                         *)
(* The state is the verifier built at server start-up, and, per request,   *)
(* the middleware instance cloned for it, the gotham State (method, uri,   *)
(* header map, Body), the hyper body stream feeding the Body, the locals   *)
(* of `call` (body buffer, canonical request) and the outcome of `call`.   *)
(* The Verifier (aws_sig_verify) and the producer of the body stream are   *)
(* the environment.                                                        *)
(***************************************************************************)
EXTENDS Integers, Sequences, FiniteSets, TLC

\* ---------------------------------------------------------------- bounds
\* Bytes one body stream delivers at most, in chunks of any size.
MaxBodyLen == 2
\* Entries one header collection holds at most.
MaxHeaders == 3

\* The requests in flight at the same time.
Reqs == {1, 2}

\* ------------------------------------------------------------- constants
UNPROCESSABLE_ENTITY == 422
UNAUTHORIZED == 401
OK == 200

\* ------------------------------------------------------------ data types
None == [some |-> FALSE, val |-> 0]
Some(x) == [some |-> TRUE, val |-> x]

\* chrono::Duration, in seconds.
Minutes(n) == n * 60

SigningKeyKinds == {"KSecret", "KDate", "KRegion", "KService", "KSigning"}
SigningKeyFns == {"get_signing_key", "unknown_key_fn"}
Services == {"service", "other"}
Regions == {"us-east-1", "eu-west-1"}
Mismatches == {None, Some(0), Some(Minutes(5))}

\* The struct AWSSigV4Verifier, built field by field.
Verifier(kind, fn, mismatch, service, region) ==
    [signing_key_kind |-> kind,
     signing_key_fn   |-> fn,
     allowed_mismatch |-> mismatch,
     service          |-> service,
     region           |-> region]

\* new with the service and the region stored in each other's field.
New_Swapped(signing_key_fn, service, region) ==
    [signing_key_kind |-> "KSigning",
     signing_key_fn   |-> signing_key_fn,
     allowed_mismatch |-> Some(Minutes(5)),
     service          |-> region,
     region           |-> service]

\* AWSSigV4Verifier::new
New(signing_key_fn, service, region) ==
    [signing_key_kind |-> "KSigning",
     signing_key_fn   |-> signing_key_fn,
     allowed_mismatch |-> Some(Minutes(5)),
     service          |-> service,
     region           |-> region]

\* The verifier of tests::router.
RouterVerifier == Verifier("KSigning", "get_signing_key", None, "service", "us-east-1")

Unbuilt == Verifier("none", "none", None, "", "")
NoCtor == [how |-> "none", kind |-> "none", fn |-> "none", mismatch |-> None,
           service |-> "", region |-> ""]

\* ------------------------------------------------------------ the Body
\* hyper::Body held in the State: absent, the transport's stream, or a
\* buffered body made by Body::from(bytes).
NoBody == [kind |-> "none", bytes |-> <<>>]
StreamBody == [kind |-> "stream", bytes |-> <<>>]
BodyFrom(bytes) == [kind |-> "full", bytes |-> bytes]

\* Items a body stream yields to poll().
ChunkItem(data) == [t |-> "chunk", data |-> data]
EndItem == [t |-> "end", data |-> <<>>]
ErrItem == [t |-> "err", data |-> <<>>]

\* The chunks a stream that has delivered n bytes may deliver next: any
\* number of further bytes.  call never looks at the value of a byte, so
\* the i-th byte of a body is given the value i: a byte that is lost,
\* repeated or out of place shows in the buffer.
Chunks(n) == {[i \in 1 .. k |-> n + i] : k \in 1 .. (MaxBodyLen - n)}

\* --------------------------------------------------- the transport's input
Header(name, value) == [name |-> name, value |-> value]

\* The get-vanilla request of tests::check_verify; the Authorization value
\* stands for a signature made over a body with digest d.
AuthValue(d) == IF d = 0 THEN "AWS4-HMAC-SHA256 Signature=d0"
                ELSE "AWS4-HMAC-SHA256 Signature=d1"

VanillaHeaders ==
    << Header("host", "example.amazonaws.com"),
       Header("x-amz-date", "20150830T123600Z"),
       Header("authorization", AuthValue(0)) >>

\* The same request dated at the server's current time.
CurrentHeaders ==
    << Header("host", "example.amazonaws.com"),
       Header("x-amz-date", "now"),
       Header("authorization", AuthValue(0)) >>

UnsignedHeaders ==
    << Header("host", "example.amazonaws.com"),
       Header("x-amz-date", "20150830T123600Z") >>

\* The gotham State as `call` receives it.
StateOf(method, path, query, header_map, body) ==
    [method |-> method, path |-> path, query |-> query,
     header_map |-> header_map, body |-> body]

EmptyState == StateOf("", "", None, <<>>, NoBody)

Inputs ==
    { StateOf("GET", "/", None, VanillaHeaders, StreamBody),
      StateOf("GET", "/", None, UnsignedHeaders, NoBody),
      StateOf("GET", "/", Some("a=b"), CurrentHeaders, NoBody) }

\* ----------------------------------------------- assembling the request
\* The loop of lines 103-109: each value is pushed onto the vector kept
\* under its name, the vector being created on the name's first value.
RECURSIVE PushHeaders(_, _)
PushHeaders(header_map, headers) ==
    IF header_map = <<>> THEN headers
    ELSE LET key == Head(header_map).name
             values == IF key \in DOMAIN headers THEN headers[key] ELSE <<>>
         IN PushHeaders(Tail(header_map),
                [k \in DOMAIN headers \cup {key} |->
                    IF k = key THEN Append(values, Head(header_map).value)
                    ELSE headers[k]])

\* Every name keeps only the first of its values.
FlattenHeaders_KeepsFirst(header_map) ==
    LET flat == PushHeaders(header_map, <<>>)
    IN [k \in DOMAIN flat |-> << flat[k][1] >>]

FlattenHeaders(header_map) == PushHeaders(header_map, <<>>)

\* The request built with an empty body whatever was captured.
BuildRequest_NoBody(self, state, body) ==
    [request_method |-> state.method,
     uri_path       |-> state.path,
     query_string   |-> IF state.query.some THEN state.query.val ELSE "",
     headers        |-> FlattenHeaders(state.header_map),
     body           |-> <<>>,
     region         |-> self.region,
     service        |-> self.service]

\* aws_sig_verify::Request as built on lines 111-122.
BuildRequest(self, state, body) ==
    [request_method |-> state.method,
     uri_path       |-> state.path,
     query_string   |-> IF state.query.some THEN state.query.val ELSE "",
     headers        |-> FlattenHeaders(state.header_map),
     body           |-> body,
     region         |-> self.region,
     service        |-> self.service]

NoRequest == BuildRequest(Unbuilt, EmptyState, <<>>)

\* ------------------------------------------------------- the Verifier
\* A stand-in for the payload hash: two bodies with different digests are
\* different bodies.
Digest(bytes) == Len(bytes) % 2

SignedDigest(value) == IF value = AuthValue(0) THEN 0 ELSE 1

\* Seconds between the request's date and the server's clock.
Age(date) == IF date = "now" THEN 0 ELSE Minutes(60)

VerifyOk == [ok |-> TRUE, err |-> ""]
VerifyErr(kind) == [ok |-> FALSE, err |-> kind]
NotVerified == [ok |-> FALSE, err |-> "not verified"]

HasSigHeaders(request) ==
    /\ "authorization" \in DOMAIN request.headers
    /\ "x-amz-date" \in DOMAIN request.headers

\* Whether verify gets as far as calling the signing-key lookup.
CallsKeyFn(request) == HasSigHeaders(request)

KeyFnOk(signing_key_fn) == signing_key_fn = "get_signing_key"

\* AWSSigV4::verify(&request, signing_key_kind, signing_key_fn, allowed_mismatch)
AWSSigV4Verify(request, signing_key_kind, signing_key_fn, allowed_mismatch) ==
    IF ~HasSigHeaders(request) THEN VerifyErr("MissingHeader")
    ELSE IF ~KeyFnOk(signing_key_fn) THEN VerifyErr("InvalidCredential")
    ELSE IF /\ allowed_mismatch.some
            /\ Age(request.headers["x-amz-date"][1]) > allowed_mismatch.val
         THEN VerifyErr("TimestampOutOfRange")
    ELSE IF \/ request.region # "us-east-1"
            \/ request.service # "service"
            \/ SignedDigest(request.headers["authorization"][1]) # Digest(request.body)
         THEN VerifyErr("InvalidSignature")
    ELSE VerifyOk

\* The configuration arguments of the call on lines 124-127.
NoArgs == [kind |-> "none", fn |-> "none", mismatch |-> None]

\* verify called with the default kind of key whatever the instance holds.
VerifyArgs_DefaultKind(self) ==
    [kind     |-> "KSigning",
     fn       |-> self.signing_key_fn,
     mismatch |-> self.allowed_mismatch]

\* Lines 125-127: self.signing_key_kind, self.signing_key_fn,
\* self.allowed_mismatch.
VerifyArgs(self) ==
    [kind     |-> self.signing_key_kind,
     fn       |-> self.signing_key_fn,
     mismatch |-> self.allowed_mismatch]

\* ------------------------------------------- the signing-key lookup
\* Option<&str>
StrNone == [some |-> FALSE, val |-> ""]

\* Result<Vec<u8>, SignatureError>
KeyOk(key) == [ok |-> TRUE, key |-> key, err |-> ""]
KeyErr(msg) == [ok |-> FALSE, key |-> <<>>, err |-> msg]

\* A key is the sequence of what went into it: the secret, then the message
\* of each HMAC-SHA256 made from it, in the order they were made.  Two keys
\* are equal only if they were made from the same secret by the same
\* messages in the same order.
k_secret == << "AWS4wJalrXUtnFEMI/K7MDENG+bPxRfiCYEXAMPLEKEY" >>

\* hmac::sign(&hmac::SigningKey::new(&SHA256, key), msg)
Hmac(key, msg) == Append(key, msg)

\* Lines 219-240.
GetSigningKeyKService(kind, k_region, service_opt) ==
    IF service_opt.some
    THEN LET k_service == Hmac(k_region, service_opt.val)
         IN IF kind = "KService" THEN KeyOk(k_service)
            ELSE KeyOk(Hmac(k_service, "aws4_request"))
    ELSE KeyErr("Missing service parameter")

\* The region's stage keyed with the service.
GetSigningKeyKRegion_UsesService(kind, k_date, region_opt, service_opt) ==
    IF region_opt.some
    THEN LET k_region == Hmac(k_date, service_opt.val)
         IN IF kind = "KRegion" THEN KeyOk(k_region)
            ELSE GetSigningKeyKService(kind, k_region, service_opt)
    ELSE KeyErr("Missing request region parameter")

\* Lines 200-217.
GetSigningKeyKRegion(kind, k_date, region_opt, service_opt) ==
    IF region_opt.some
    THEN LET k_region == Hmac(k_date, region_opt.val)
         IN IF kind = "KRegion" THEN KeyOk(k_region)
            ELSE GetSigningKeyKService(kind, k_region, service_opt)
    ELSE KeyErr("Missing request region parameter")

\* Lines 180-198.
GetSigningKeyKDate(kind, secret, req_date_opt, region_opt, service_opt) ==
    IF req_date_opt.some
    THEN LET k_date == Hmac(secret, req_date_opt.val)
         IN IF kind = "KDate" THEN KeyOk(k_date)
            ELSE GetSigningKeyKRegion(kind, k_date, region_opt, service_opt)
    ELSE KeyErr("Missing request date parameter")

\* Lines 165-178: tests::get_signing_key.  The access key id and the
\* session token are not looked at.
GetSigningKey(kind, access_key_id, session_token, req_date_opt, region_opt, service_opt) ==
    IF kind = "KSecret" THEN KeyOk(k_secret)
    ELSE GetSigningKeyKDate(kind, k_secret, req_date_opt, region_opt, service_opt)

\* One call of the lookup function: its arguments and what it returned.
Lookup(kind, access_key_id, session_token, req_date_opt, region_opt, service_opt) ==
    [called |-> TRUE, kind |-> kind, access_key_id |-> access_key_id,
     session_token |-> session_token, req_date_opt |-> req_date_opt,
     region_opt |-> region_opt, service_opt |-> service_opt,
     result |-> GetSigningKey(kind, access_key_id, session_token, req_date_opt,
                              region_opt, service_opt)]

NoLookup ==
    [called |-> FALSE, kind |-> "none", access_key_id |-> "",
     session_token |-> StrNone, req_date_opt |-> StrNone,
     region_opt |-> StrNone, service_opt |-> StrNone, result |-> KeyErr("")]

\* ------------------------------------------------------- outcomes of call
NoOutcome == [kind |-> "none", status |-> 0, error |-> "", state |-> EmptyState]

\* future::err((state, e.into_handler_error().with_status(status)))
Failure(state, status, error) ==
    [kind |-> "err", status |-> status, error |-> error, state |-> state]

\* The next pipeline stage: tests::generic_handler answers 200 OK and hands
\* the state back.
NextStage(state) ==
    [kind |-> "ok", status |-> OK, error |-> "", state |-> state]

\* ------------------------------------------------------------- the state
VARIABLES
    verifier,   \* the AWSSigV4Verifier built at start-up
    ctor,       \* how it was built, and from which arguments
    inst,       \* inst[r]: the instance new_middleware made for request r (self)
    pc,         \* pc[r]: where request r is in the pipeline and in call
    input,      \* input[r]: the State as the transport made it
    lookup,     \* the last call of the signing-key lookup function, and its result
    st,         \* st[r]: the gotham State (state)
    chan,       \* chan[r]: items of r's body stream that poll() can return now
    producer,   \* producer[r]: "none", "open", "ended" or "failed"
    sent,       \* sent[r]: all bytes the stream was given, in arrival order
    nChunks,    \* nChunks[r]: the chunks they came in
    sharedTask, \* the producers need the thread that runs call to make progress
    buf,        \* buf[r]: the local `body` of call
    request,    \* request[r]: the local `request` of call
    vres,       \* vres[r]: what verify returned
    vcall,      \* vcall[r]: the arguments verify was called with, after the request
    outcome,    \* outcome[r]: what call returned
    idle,       \* idle[r]: 0, or 1 or 2 by turns while the last polls were NotReady
    waited,     \* waited[r]: some poll() returned NotReady
    eos,        \* eos[r]: poll() has returned Ready(None)
    log,        \* log[r]: the stages call has run, in order
    keyFnCalls  \* keyFnCalls[r]: calls of signing_key_fn made for r

vars == << verifier, ctor, inst, pc, input, lookup, st, chan, producer, sent, nChunks,
           sharedTask, buf, request, vres, vcall, outcome, idle, waited, eos, log,
           keyFnCalls >>

ctorVars == << verifier, ctor >>
streamVars == << chan, producer, sent, nChunks >>
pollVars == << idle, waited, eos >>
callVars == << inst, pc, st, buf, request, vres, vcall, outcome, pollVars, log, keyFnCalls >>
reqVars == << input, lookup, streamVars, sharedTask, callVars >>

\* ----------------------------------------------------------- construction
CtorNew(fn, service, region) ==
    [how |-> "new", kind |-> "none", fn |-> fn, mismatch |-> None,
     service |-> service, region |-> region]

CtorFields(kind, fn, mismatch, service, region) ==
    [how |-> "fields", kind |-> kind, fn |-> fn, mismatch |-> mismatch,
     service |-> service, region |-> region]

\* let verifier = AWSSigV4Verifier::new(signing_key_fn, service, region)
ConstructNew(fn, service, region) ==
    /\ ctor.how = "none"
    /\ verifier' = New(fn, service, region)
    /\ ctor' = CtorNew(fn, service, region)
    /\ UNCHANGED reqVars

\* let verifier = AWSSigV4Verifier{ ... }
ConstructFields(kind, fn, mismatch, service, region) ==
    /\ ctor.how = "none"
    /\ verifier' = Verifier(kind, fn, mismatch, service, region)
    /\ ctor' = CtorFields(kind, fn, mismatch, service, region)
    /\ UNCHANGED reqVars

\* The verifiers the request-handling specification starts from.
Startups ==
    { [v |-> New("get_signing_key", "service", "us-east-1"),
       c |-> CtorNew("get_signing_key", "service", "us-east-1")],
      [v |-> RouterVerifier,
       c |-> CtorFields("KSigning", "get_signing_key", None, "service", "us-east-1")],
      [v |-> Verifier("KSigning", "unknown_key_fn", None, "service", "us-east-1"),
       c |-> CtorFields("KSigning", "unknown_key_fn", None, "service", "us-east-1")] }

\* The requests as the transport hands them in, with one of the given
\* assignments of a state to each, before any step of the pipeline.
RequestsStart(inputs) ==
    /\ inst = [r \in Reqs |-> Unbuilt]
    /\ pc = [r \in Reqs |-> "accepted"]
    /\ input \in inputs
    /\ lookup = NoLookup
    /\ st = input
    /\ chan = [r \in Reqs |-> <<>>]
    /\ producer = [r \in Reqs |-> IF input[r].body = StreamBody THEN "open" ELSE "none"]
    /\ sent = [r \in Reqs |-> <<>>]
    /\ nChunks = [r \in Reqs |-> 0]
    /\ sharedTask \in BOOLEAN
    /\ buf = [r \in Reqs |-> <<>>]
    /\ request = [r \in Reqs |-> NoRequest]
    /\ vres = [r \in Reqs |-> NotVerified]
    /\ vcall = [r \in Reqs |-> NoArgs]
    /\ outcome = [r \in Reqs |-> NoOutcome]
    /\ idle = [r \in Reqs |-> 0]
    /\ waited = [r \in Reqs |-> FALSE]
    /\ eos = [r \in Reqs |-> FALSE]
    /\ log = [r \in Reqs |-> <<>>]
    /\ keyFnCalls = [r \in Reqs |-> 0]

RequestsInit == RequestsStart([Reqs -> Inputs])

Init ==
    /\ \E s \in Startups : verifier = s.v /\ ctor = s.c
    /\ RequestsInit

\* ------------------------------------------------------- the body stream
\* The producer of request r's body hands the stream its next item.  When
\* it shares the task that runs call, it runs only while call is not running.
Deliver(r) ==
    /\ producer[r] = "open"
    /\ sharedTask => pc[r] \in {"accepted", "call"}
    /\ \E item \in {ChunkItem(c) : c \in Chunks(Len(sent[r]))} \cup {EndItem, ErrItem} :
        /\ chan' = [chan EXCEPT ![r] = Append(@, item)]
        /\ sent' = [sent EXCEPT ![r] = @ \o item.data]
        /\ nChunks' = [nChunks EXCEPT ![r] = IF item.t = "chunk" THEN @ + 1 ELSE @]
        /\ producer' = [producer EXCEPT ![r] =
                           CASE item.t = "chunk" -> "open"
                             [] item.t = "end"   -> "ended"
                             [] item.t = "err"   -> "failed"]
    /\ UNCHANGED << ctorVars, input, lookup, sharedTask, callVars >>

\* ------------------------------------------------------------ the pipeline
\* new_middleware handing out the verifier itself: the fields call moves out
\* of self (region, service) are gone for the requests that follow.
NewMiddleware_Moves(r) ==
    /\ pc[r] = "accepted"
    /\ inst' = [inst EXCEPT ![r] = verifier]
    /\ verifier' = [verifier EXCEPT !.region = "", !.service = ""]
    /\ pc' = [pc EXCEPT ![r] = "call"]
    /\ UNCHANGED << ctor, input, lookup, streamVars, sharedTask, st, buf, request, vres, vcall,
                    outcome, pollVars, log, keyFnCalls >>

\* NewMiddleware::new_middleware: Ok(self.clone())
NewMiddleware(r) ==
    /\ pc[r] = "accepted"
    /\ inst' = [inst EXCEPT ![r] = verifier]
    /\ pc' = [pc EXCEPT ![r] = "call"]
    /\ UNCHANGED << ctorVars, input, lookup, streamVars, sharedTask, st, buf, request, vres, vcall,
                    outcome, pollVars, log, keyFnCalls >>

\* ------------------------------------------------------- Middleware::call
\* call putting a Body made from the empty buffer into a state that held none.
CallTake_AlwaysPuts(r) ==
    /\ pc[r] = "call"
    /\ buf' = [buf EXCEPT ![r] = <<>>]
    /\ log' = [log EXCEPT ![r] = Append(@, "capture")]
    /\ IF st[r].body.kind # "none"
       THEN /\ st' = [st EXCEPT ![r].body = NoBody]
            /\ pc' = [pc EXCEPT ![r] = "drain"]
       ELSE /\ pc' = [pc EXCEPT ![r] = "assemble"]
            /\ st' = [st EXCEPT ![r].body = BodyFrom(<<>>)]
    /\ UNCHANGED << ctorVars, input, lookup, streamVars, sharedTask, inst, request, vres, vcall,
                    outcome, pollVars, keyFnCalls >>

\* Lines 73-74: the empty buffer, and state.try_take::<Body>().
CallTake(r) ==
    /\ pc[r] = "call"
    /\ buf' = [buf EXCEPT ![r] = <<>>]
    /\ log' = [log EXCEPT ![r] = Append(@, "capture")]
    /\ IF st[r].body.kind # "none"
       THEN /\ st' = [st EXCEPT ![r].body = NoBody]
            /\ pc' = [pc EXCEPT ![r] = "drain"]
       ELSE /\ pc' = [pc EXCEPT ![r] = "assemble"]
            /\ UNCHANGED st
    /\ UNCHANGED << ctorVars, input, lookup, streamVars, sharedTask, inst, request, vres, vcall,
                    outcome, pollVars, keyFnCalls >>

\* The chunk put in front of the buffer instead of at its end.
AppendChunk_Prepends(body, chunk) == chunk \o body

\* Line 85: body.append(&mut chunk.as_ref().to_vec())
AppendChunk(body, chunk) == body \o chunk

\* An empty Body put back in place of the bytes read.
PutBody_Empty(state, body) == [state EXCEPT !.body = BodyFrom(<<>>)]

\* Line 93: state.put(Body::from(body.clone()))
PutBody(state, body) == [state EXCEPT !.body = BodyFrom(body)]

\* NotReady taken for the end of the stream: the loop is left.
PollNotReady_Breaks(r) ==
    /\ chan[r] = <<>>
    /\ idle' = [idle EXCEPT ![r] = 0]
    /\ waited' = [waited EXCEPT ![r] = TRUE]
    /\ st' = [st EXCEPT ![r] = PutBody(@, buf[r])]
    /\ pc' = [pc EXCEPT ![r] = "assemble"]
    /\ UNCHANGED << chan, buf, outcome, eos, log >>

\* Line 83, NotReady => (): the loop polls again at once.
PollNotReady(r) ==
    /\ chan[r] = <<>>
    /\ idle' = [idle EXCEPT ![r] = IF @ = 1 THEN 2 ELSE 1]
    /\ waited' = [waited EXCEPT ![r] = TRUE]
    /\ UNCHANGED << chan, pc, st, buf, outcome, eos, log >>

\* The I/O error taken for the end of the stream: what was read is verified.
PollErr_Breaks(r) ==
    /\ chan[r] # <<>> /\ Head(chan[r]).t = "err"
    /\ chan' = [chan EXCEPT ![r] = Tail(@)]
    /\ idle' = [idle EXCEPT ![r] = 0]
    /\ st' = [st EXCEPT ![r] = PutBody(@, buf[r])]
    /\ pc' = [pc EXCEPT ![r] = "assemble"]
    /\ UNCHANGED << buf, outcome, waited, eos, log >>

\* The 422 outcome carrying a Body made from what was read so far.
PollErr_PutsPartial(r) ==
    /\ chan[r] # <<>> /\ Head(chan[r]).t = "err"
    /\ chan' = [chan EXCEPT ![r] = Tail(@)]
    /\ idle' = [idle EXCEPT ![r] = 0]
    /\ st' = [st EXCEPT ![r] = PutBody(@, buf[r])]
    /\ outcome' = [outcome EXCEPT ![r] =
                      Failure(PutBody(st[r], buf[r]), UNPROCESSABLE_ENTITY, "io")]
    /\ pc' = [pc EXCEPT ![r] = "done"]
    /\ log' = [log EXCEPT ![r] = Append(@, "reject")]
    /\ UNCHANGED << buf, waited, eos >>

\* Lines 78-81, Err(e): call returns the 422 outcome.
PollErr(r) ==
    /\ chan[r] # <<>> /\ Head(chan[r]).t = "err"
    /\ chan' = [chan EXCEPT ![r] = Tail(@)]
    /\ idle' = [idle EXCEPT ![r] = 0]
    /\ outcome' = [outcome EXCEPT ![r] = Failure(st[r], UNPROCESSABLE_ENTITY, "io")]
    /\ pc' = [pc EXCEPT ![r] = "done"]
    /\ log' = [log EXCEPT ![r] = Append(@, "reject")]
    /\ UNCHANGED << st, buf, waited, eos >>

\* Line 85, Ready(Some(chunk)): the chunk goes to the end of the buffer.
PollChunk(r) ==
    /\ chan[r] # <<>> /\ Head(chan[r]).t = "chunk"
    /\ chan' = [chan EXCEPT ![r] = Tail(@)]
    /\ idle' = [idle EXCEPT ![r] = 0]
    /\ buf' = [buf EXCEPT ![r] = AppendChunk(@, Head(chan[r]).data)]
    /\ UNCHANGED << pc, st, outcome, waited, eos, log >>

\* Line 86, Ready(None) => break, and line 93 after the loop.
PollEnd(r) ==
    /\ chan[r] # <<>> /\ Head(chan[r]).t = "end"
    /\ chan' = [chan EXCEPT ![r] = Tail(@)]
    /\ idle' = [idle EXCEPT ![r] = 0]
    /\ eos' = [eos EXCEPT ![r] = TRUE]
    /\ st' = [st EXCEPT ![r] = PutBody(@, buf[r])]
    /\ pc' = [pc EXCEPT ![r] = "assemble"]
    /\ UNCHANGED << buf, outcome, waited, log >>

\* One iteration of the loop of lines 76-90: match hyper_body.poll().
Poll(r) ==
    /\ pc[r] = "drain"
    /\ \/ PollNotReady(r)
       \/ PollErr(r)
       \/ PollChunk(r)
       \/ PollEnd(r)
    /\ UNCHANGED << ctorVars, input, lookup, producer, sent, nChunks, sharedTask, inst,
                    request, vres, vcall, keyFnCalls >>

\* Lines 97-122: the canonical request.
Assemble(r) ==
    /\ pc[r] = "assemble"
    /\ request' = [request EXCEPT ![r] = BuildRequest(inst[r], st[r], buf[r])]
    /\ pc' = [pc EXCEPT ![r] = "verify"]
    /\ log' = [log EXCEPT ![r] = Append(@, "assemble")]
    /\ UNCHANGED << ctorVars, input, lookup, streamVars, sharedTask, inst, st, buf, vres, vcall,
                    outcome, pollVars, keyFnCalls >>

\* verify without the return of line 129: a failed verification goes on to
\* the next stage.
Verify_FallsThrough(r) ==
    /\ pc[r] = "verify"
    /\ vres' = [vres EXCEPT ![r] =
                  AWSSigV4Verify(request[r], VerifyArgs(inst[r]).kind,
                                 VerifyArgs(inst[r]).fn, VerifyArgs(inst[r]).mismatch)]
    /\ pc' = [pc EXCEPT ![r] = "chain"]
    /\ log' = [log EXCEPT ![r] = Append(@, "verify")]
    /\ keyFnCalls' = [keyFnCalls EXCEPT ![r] =
                        IF CallsKeyFn(request[r]) THEN @ + 1 ELSE @]
    /\ vcall' = [vcall EXCEPT ![r] = VerifyArgs(inst[r])]
    /\ UNCHANGED << ctorVars, input, lookup, streamVars, sharedTask, inst, st, buf, request,
                    outcome, pollVars >>

\* verify tried again when it fails.
Verify_Retries(r) ==
    /\ pc[r] = "verify"
    /\ LET res == AWSSigV4Verify(request[r], VerifyArgs(inst[r]).kind,
                                 VerifyArgs(inst[r]).fn, VerifyArgs(inst[r]).mismatch)
       IN /\ vres' = [vres EXCEPT ![r] = res]
          /\ pc' = [pc EXCEPT ![r] = IF res.ok THEN "chain" ELSE "verify"]
          /\ log' = [log EXCEPT ![r] = Append(@, "verify")]
    /\ keyFnCalls' = [keyFnCalls EXCEPT ![r] =
                        IF CallsKeyFn(request[r]) THEN @ + 1 ELSE @]
    /\ vcall' = [vcall EXCEPT ![r] = VerifyArgs(inst[r])]
    /\ UNCHANGED << ctorVars, input, lookup, streamVars, sharedTask, inst, st, buf, request,
                    outcome, pollVars >>

\* The 401 outcome returned with the replacement Body taken out of the state.
Verify_UndoesBody(r) ==
    /\ pc[r] = "verify"
    /\ LET res == AWSSigV4Verify(request[r], VerifyArgs(inst[r]).kind,
                                 VerifyArgs(inst[r]).fn, VerifyArgs(inst[r]).mismatch)
       IN /\ vres' = [vres EXCEPT ![r] = res]
          /\ IF res.ok
             THEN /\ pc' = [pc EXCEPT ![r] = "chain"]
                  /\ log' = [log EXCEPT ![r] = Append(@, "verify")]
                  /\ UNCHANGED << outcome, st >>
             ELSE /\ st' = [st EXCEPT ![r].body = NoBody]
                  /\ outcome' = [outcome EXCEPT ![r] =
                                   Failure([st[r] EXCEPT !.body = NoBody],
                                           UNAUTHORIZED, res.err)]
                  /\ pc' = [pc EXCEPT ![r] = "done"]
                  /\ log' = [log EXCEPT ![r] = @ \o << "verify", "reject" >>]
    /\ keyFnCalls' = [keyFnCalls EXCEPT ![r] =
                        IF CallsKeyFn(request[r]) THEN @ + 1 ELSE @]
    /\ vcall' = [vcall EXCEPT ![r] = VerifyArgs(inst[r])]
    /\ UNCHANGED << ctorVars, input, lookup, streamVars, sharedTask, inst, buf, request,
                    pollVars >>

\* Lines 124-133: sigv4.verify(...), and the 401 outcome when it fails.
Verify(r) ==
    /\ pc[r] = "verify"
    /\ LET res == AWSSigV4Verify(request[r], VerifyArgs(inst[r]).kind,
                                 VerifyArgs(inst[r]).fn, VerifyArgs(inst[r]).mismatch)
       IN /\ vres' = [vres EXCEPT ![r] = res]
          /\ IF res.ok
             THEN /\ pc' = [pc EXCEPT ![r] = "chain"]
                  /\ log' = [log EXCEPT ![r] = Append(@, "verify")]
                  /\ UNCHANGED outcome
             ELSE /\ outcome' = [outcome EXCEPT ![r] =
                                   Failure(st[r], UNAUTHORIZED, res.err)]
                  /\ pc' = [pc EXCEPT ![r] = "done"]
                  /\ log' = [log EXCEPT ![r] = @ \o << "verify", "reject" >>]
    /\ keyFnCalls' = [keyFnCalls EXCEPT ![r] =
                        IF CallsKeyFn(request[r]) THEN @ + 1 ELSE @]
    /\ vcall' = [vcall EXCEPT ![r] = VerifyArgs(inst[r])]
    /\ UNCHANGED << ctorVars, input, lookup, streamVars, sharedTask, inst, st, buf, request,
                    pollVars >>

\* The test of line 125 inverted: the 401 outcome on a successful verify.
Chain_Rejects(r) ==
    /\ pc[r] = "chain"
    /\ outcome' = [outcome EXCEPT ![r] = Failure(st[r], UNAUTHORIZED, "")]
    /\ pc' = [pc EXCEPT ![r] = "done"]
    /\ log' = [log EXCEPT ![r] = Append(@, "chain")]
    /\ UNCHANGED << ctorVars, input, lookup, streamVars, sharedTask, inst, st, buf, request,
                    vres, vcall, pollVars, keyFnCalls >>

\* Line 135: chain(state)
Chain(r) ==
    /\ pc[r] = "chain"
    /\ outcome' = [outcome EXCEPT ![r] = NextStage(st[r])]
    /\ pc' = [pc EXCEPT ![r] = "done"]
    /\ log' = [log EXCEPT ![r] = Append(@, "chain")]
    /\ UNCHANGED << ctorVars, input, lookup, streamVars, sharedTask, inst, st, buf, request,
                    vres, vcall, pollVars, keyFnCalls >>

Call(r) == CallTake(r) \/ Poll(r) \/ Assemble(r) \/ Verify(r) \/ Chain(r)

Next ==
    \/ \E r \in Reqs : Deliver(r)
    \/ \E r \in Reqs : NewMiddleware(r)
    \/ \E r \in Reqs : CallTake(r)
    \/ \E r \in Reqs : Poll(r)
    \/ \E r \in Reqs : Assemble(r)
    \/ \E r \in Reqs : Verify(r)
    \/ \E r \in Reqs : Chain(r)

Spec == Init /\ [][Next]_vars

\* The pipeline keeps running whatever can run: a request that was accepted
\* gets its middleware, call takes its next step, and a producer that may
\* run delivers.
Fairness ==
    \A r \in Reqs :
        /\ WF_vars(NewMiddleware(r))
        /\ WF_vars(Call(r))
        /\ WF_vars(Deliver(r))

FairSpec == Spec /\ Fairness

\* Construction alone, over every argument; no request is handled.
CtorInit ==
    /\ verifier = Unbuilt
    /\ ctor = NoCtor
    /\ input = [r \in Reqs |-> StateOf("GET", "/", None, VanillaHeaders, StreamBody)]
    /\ sharedTask = FALSE
    /\ RequestsInit

CtorNext ==
    \/ \E fn \in SigningKeyFns, service \in Services, region \in Regions :
          ConstructNew(fn, service, region)
    \/ \E kind \in SigningKeyKinds, fn \in SigningKeyFns, mismatch \in Mismatches,
          service \in Services, region \in Regions :
          ConstructFields(kind, fn, mismatch, service, region)

CtorSpec == CtorInit /\ [][CtorNext]_vars

\* Header flattening alone, the requests in flight carrying the same header
\* collection, over every collection of up to MaxHeaders entries: names
\* that repeat, names that differ only by case, values that repeat, in
\* every order.  (The HeaderMap of the http crate
\* holds lower-case names only and iterates a name's values together; the
\* collections here include those and more.)
HeaderNames == {"host", "x-tag", "X-Tag"}
HeaderValues == {"a", "b"}
HeaderEntries == {Header(n, v) : n \in HeaderNames, v \in HeaderValues}
HeaderMaps == UNION {[1 .. n -> HeaderEntries] : n \in 0 .. MaxHeaders}

HeaderInit ==
    /\ verifier = RouterVerifier
    /\ ctor = CtorFields("KSigning", "get_signing_key", None, "service", "us-east-1")
    /\ RequestsStart({[r \in Reqs |-> StateOf("GET", "/", None, h, NoBody)] :
                         h \in HeaderMaps})
    /\ sharedTask = FALSE

HeaderNext ==
    \/ \E r \in Reqs : NewMiddleware(r)
    \/ \E r \in Reqs : CallTake(r)
    \/ \E r \in Reqs : Assemble(r)

HeaderSpec == HeaderInit /\ [][HeaderNext]_vars

\* The call of verify over every configuration a verifier can be built
\* with, for requests that say nothing or something else about the region
\* and the service in their path, query and credential scope.
ScopedHeaders ==
    << Header("host", "example.amazonaws.com"),
       Header("x-amz-date", "now"),
       Header("authorization",
              "AWS4-HMAC-SHA256 Credential=AKIDEXAMPLE/20150830/eu-west-1/other/aws4_request") >>

ConfigInputs ==
    { StateOf("GET", "/", None, CurrentHeaders, NoBody),
      StateOf("GET", "/eu-west-1/other", Some("region=eu-west-1&service=other"),
              ScopedHeaders, NoBody) }

ConfigInit ==
    /\ \E kind \in SigningKeyKinds, fn \in SigningKeyFns, mismatch \in Mismatches,
          service \in Services, region \in Regions :
          /\ verifier = Verifier(kind, fn, mismatch, service, region)
          /\ ctor = CtorFields(kind, fn, mismatch, service, region)
    /\ RequestsStart([Reqs -> ConfigInputs])
    /\ sharedTask = FALSE

ConfigNext ==
    \/ \E r \in Reqs : NewMiddleware(r)
    \/ \E r \in Reqs : CallTake(r)
    \/ \E r \in Reqs : Assemble(r)
    \/ \E r \in Reqs : Verify(r)
    \/ \E r \in Reqs : Chain(r)

ConfigSpec == ConfigInit /\ [][ConfigNext]_vars

\* The signing-key lookup alone, called with every kind of key and with
\* each of the date, the region and the service present or absent.
AccessKeyIds == {"AKIDEXAMPLE", "AKIDOTHER"}
SessionTokens == {StrNone, Some("token")}
ReqDates == {StrNone, Some("20150830"), Some("20150831")}
RegionOpts == {StrNone} \cup {Some(g) : g \in Regions}
ServiceOpts == {StrNone} \cup {Some(s) : s \in Services}

KeyLookup(kind, access_key_id, session_token, req_date_opt, region_opt, service_opt) ==
    /\ lookup' = Lookup(kind, access_key_id, session_token, req_date_opt,
                        region_opt, service_opt)
    /\ UNCHANGED << ctorVars, input, streamVars, sharedTask, callVars >>

KeyInit ==
    /\ verifier = RouterVerifier
    /\ ctor = CtorFields("KSigning", "get_signing_key", None, "service", "us-east-1")
    /\ RequestsStart([Reqs -> {StateOf("GET", "/", None, VanillaHeaders, NoBody)}])
    /\ sharedTask = FALSE

KeyNext ==
    \E kind \in SigningKeyKinds, access_key_id \in AccessKeyIds,
       session_token \in SessionTokens, req_date_opt \in ReqDates,
       region_opt \in RegionOpts, service_opt \in ServiceOpts :
       KeyLookup(kind, access_key_id, session_token, req_date_opt, region_opt,
                 service_opt)

KeySpec == KeyInit /\ [][KeyNext]_vars

\* ================================================================ claims
HasBody(r) == input[r].body.kind = "stream"
Ran(r, stage) == \E i \in 1 .. Len(log[r]) : log[r][i] = stage
Times(r, stage) == Cardinality({i \in 1 .. Len(log[r]) : log[r][i] = stage})
\* poll() has returned the stream's I/O error: the error item was taken.
PolledErr(r) == producer[r] = "failed" /\ chan[r] = <<>> /\ pc[r] \notin {"accepted", "call", "drain"}
\* The state as the transport made it, with the body replaced by the bytes b.
Replaced(r, b) == [input[r] EXCEPT !.body = BodyFrom(b)]

\* C1 - Body preservation: when call reaches the next pipeline stage for a
\* request that had a body, the stream has delivered all of B, and the Body
\* in the state handed to that stage holds exactly the bytes of B, the
\* concatenation of all chunks in arrival order, however B was chunked.
C1_BodyPreservation ==
    \A r \in Reqs :
        HasBody(r) =>
            /\ pc[r] = "chain" =>
                  /\ producer[r] = "ended"
                  /\ st[r].body.kind = "full"
                  /\ st[r].body.bytes = sent[r]
                  /\ sent[r] = [i \in 1 .. Len(sent[r]) |-> i]
            /\ Ran(r, "chain") =>
                  /\ outcome[r].state.body.kind = "full"
                  /\ outcome[r].state.body.bytes = sent[r]

\* A two-byte body that came in two chunks, with a NotReady poll on the
\* way, is about to be handed to the next stage.
C1_Witness ==
    \E r \in Reqs :
        /\ pc[r] = "chain" /\ nChunks[r] = 2 /\ waited[r]
        /\ sent[r] = << 1, 2 >> /\ st[r].body.bytes = << 1, 2 >>

\* C2 - Verification failure is terminal and maps to 401: once verify has
\* returned an error, call has returned a failure outcome with status 401
\* that carries that error, and the next stage is never invoked.
C2_VerifyFailureIs401 ==
    \A r \in Reqs :
        (Ran(r, "verify") /\ ~vres[r].ok) =>
            /\ pc[r] = "done"
            /\ outcome[r].kind = "err"
            /\ outcome[r].status = 401
            /\ outcome[r].error = vres[r].err
            /\ outcome[r].error \in {"MissingHeader", "InvalidCredential",
                                     "TimestampOutOfRange", "InvalidSignature"}
            /\ ~Ran(r, "chain")

\* Two requests have both been refused, one for a bad signature and one
\* for a stale date or a failed key lookup or a missing header.
C2_Witness ==
    \E r, q \in Reqs :
        /\ pc[r] = "done" /\ outcome[r].status = 401
        /\ outcome[r].error = "InvalidSignature"
        /\ pc[q] = "done" /\ outcome[q].status = 401
        /\ outcome[q].error # "InvalidSignature"

\* C3 - Body-read failure maps to 422 with no verification: once a poll of
\* the body stream has returned an I/O error, call has returned a failure
\* outcome with status 422, and neither verify nor the signing-key lookup
\* nor the next stage is ever invoked.
C3_ReadFailureIs422 ==
    \A r \in Reqs :
        PolledErr(r) =>
            /\ pc[r] = "done"
            /\ outcome[r].kind = "err"
            /\ outcome[r].status = 422
            /\ ~Ran(r, "assemble") /\ ~Ran(r, "verify") /\ ~Ran(r, "chain")
            /\ vres[r] = NotVerified
            /\ keyFnCalls[r] = 0

\* The stream failed after a chunk had been buffered, and call returned 422.
C3_Witness ==
    \E r \in Reqs :
        /\ PolledErr(r) /\ buf[r] = << 1 >> /\ outcome[r].status = 422

\* C4 - Success is transparent: when the body was drained without error
\* and verify returned Ok, the outcome of call is the outcome of the next
\* stage on the state (the handler's 200 OK), and that state is the
\* transport's state with nothing but the Body replaced.
C4_SuccessTransparent ==
    \A r \in Reqs :
        (pc[r] = "done" /\ vres[r].ok) =>
            /\ outcome[r].kind = "ok"
            /\ outcome[r].status = 200
            /\ outcome[r].error = ""
            /\ outcome[r].state = IF HasBody(r) THEN Replaced(r, sent[r]) ELSE input[r]

\* A request with a two-byte body was verified and answered 200.
C4_Witness ==
    \E r \in Reqs :
        /\ pc[r] = "done" /\ vres[r].ok /\ HasBody(r) /\ Len(sent[r]) = 2
        /\ outcome[r].status = 200

\* C5 - Gate ordering: the next stage is invoked only after the body
\* stream has signalled end-of-stream (when there was a body) and verify
\* has returned success; it has not started while call is still draining,
\* assembling or verifying, or when verification failed.
C5_GateOrdering ==
    \A r \in Reqs :
        /\ (pc[r] = "chain" \/ Ran(r, "chain")) =>
              /\ HasBody(r) => (eos[r] /\ producer[r] = "ended" /\ chan[r] = <<>>)
              /\ Ran(r, "verify") /\ vres[r].ok
        /\ pc[r] \in {"accepted", "call", "drain", "assemble", "verify"} => ~Ran(r, "chain")
        /\ (Ran(r, "verify") /\ ~vres[r].ok) => ~Ran(r, "chain")

\* The next stage has run for a request whose body took a NotReady poll.
C5_Witness ==
    \E r \in Reqs : Ran(r, "chain") /\ HasBody(r) /\ waited[r] /\ eos[r]

\* C6 - Capture terminates: a call that is draining a body whose stream
\* terminates eventually stops draining, also when the producer of the
\* stream needs the task that runs call to make progress.
C6_CaptureTerminates ==
    \A r \in Reqs : (pc[r] = "drain") ~> (pc[r] # "drain")

\* C7 - Cooperative suspension: after a poll that reported NotReady, call
\* polls again only once the stream has been given an item (data, end of
\* stream or an error); it does not poll a stream that is still empty.
C7_NoBusyPoll ==
    [][\A r \in Reqs :
          (idle[r] > 0 /\ idle'[r] # idle[r]) => chan[r] # <<>>]_vars

\* C8 - Single linear pass: the stages of call run at most once each and
\* in the order capture, assemble, verify, then continue or reject; a 422
\* outcome ends the pass after capture and a 401 outcome after verify, and
\* a call that has returned takes no further step.
LinearPasses ==
    { << "capture", "assemble", "verify", "chain" >>,
      << "capture", "assemble", "verify", "reject" >>,
      << "capture", "reject" >> }

IsPrefix(s, t) == Len(s) =< Len(t) /\ \A i \in 1 .. Len(s) : s[i] = t[i]

C8_SingleLinearPass ==
    \A r \in Reqs :
        /\ \E p \in LinearPasses : IsPrefix(log[r], p)
        /\ Times(r, "verify") =< 1 /\ Times(r, "chain") =< 1 /\ keyFnCalls[r] =< 1
        /\ outcome[r].status = 422 => log[r] = << "capture", "reject" >>
        /\ outcome[r].status = 401 => log[r] = << "capture", "assemble", "verify", "reject" >>
        /\ pc[r] = "done" <=> (log[r] \in LinearPasses)
        /\ pc[r] = "done" => ~ENABLED Call(r)

\* One request was refused with 422, the other with 401; both calls are over.
C8_Witness ==
    \E r, q \in Reqs :
        /\ pc[r] = "done" /\ outcome[r].status = 422
        /\ pc[q] = "done" /\ outcome[q].status = 401 /\ keyFnCalls[q] = 1

\* What call returns for request r when it is handled alone: a function of
\* r's own transport state, of the bytes and the ending of r's own stream,
\* and of the verifier as it was built.
Built ==
    IF ctor.how = "new"
    THEN Verifier("KSigning", ctor.fn, Some(300), ctor.service, ctor.region)
    ELSE Verifier(ctor.kind, ctor.fn, ctor.mismatch, ctor.service, ctor.region)

AloneState(r) == IF HasBody(r) THEN Replaced(r, sent[r]) ELSE input[r]
AloneRequest(r) == BuildRequest(Built, AloneState(r), sent[r])
AloneVerdict(r) ==
    AWSSigV4Verify(AloneRequest(r), Built.signing_key_kind, Built.signing_key_fn,
                   Built.allowed_mismatch)
AloneOutcome(r) ==
    IF producer[r] = "failed"
    THEN [kind |-> "err", status |-> 422, error |-> "io",
          state |-> [input[r] EXCEPT !.body = NoBody]]
    ELSE IF AloneVerdict(r).ok
    THEN [kind |-> "ok", status |-> 200, error |-> "", state |-> AloneState(r)]
    ELSE [kind |-> "err", status |-> 401, error |-> AloneVerdict(r).err,
          state |-> AloneState(r)]

\* C9 - Request isolation: under every interleaving of the requests'
\* steps the verifier stays as it was built, every instance is a copy of
\* it, and each request's captured body, canonical request and outcome are
\* those it would have had when handled alone.
C9_RequestIsolation ==
    /\ verifier = Built
    /\ \A r \in Reqs :
        /\ pc[r] # "accepted" => inst[r] = Built
        /\ IsPrefix(buf[r], sent[r])
        /\ pc[r] \in {"assemble", "verify", "chain"} => buf[r] = sent[r]
        /\ Ran(r, "assemble") => request[r] = AloneRequest(r)
        /\ pc[r] = "done" => outcome[r] = AloneOutcome(r)

\* Both requests are over, with different bodies and different outcomes.
C9_Witness ==
    \E r, q \in Reqs :
        /\ pc[r] = "done" /\ pc[q] = "done"
        /\ outcome[r].kind = "ok" /\ HasBody(r) /\ sent[r] = << 1, 2 >>
        /\ outcome[q].status = 401 /\ HasBody(q) /\ sent[q] = << 1 >>

\* C10 - Constructor defaults: new(signing_key_fn, service, region) gives
\* signing_key_kind KSigning, allowed_mismatch Some(5 minutes) and the three
\* arguments in their fields; a verifier built field by field holds the
\* given values, allowed_mismatch None included.
C10_ConstructorDefaults ==
    /\ ctor.how = "new" =>
          /\ verifier.signing_key_kind = "KSigning"
          /\ verifier.allowed_mismatch = [some |-> TRUE, val |-> 300]
          /\ verifier.signing_key_fn = ctor.fn
          /\ verifier.service = ctor.service
          /\ verifier.region = ctor.region
    /\ ctor.how = "fields" =>
          /\ verifier.signing_key_kind = ctor.kind
          /\ verifier.allowed_mismatch = ctor.mismatch
          /\ verifier.signing_key_fn = ctor.fn
          /\ verifier.service = ctor.service
          /\ verifier.region = ctor.region

\* new was called with a service and a region that differ from each other.
C10_Witness ==
    /\ ctor.how = "new" /\ ctor.fn = "unknown_key_fn"
    /\ ctor.service = "other" /\ ctor.region = "eu-west-1"
    /\ verifier.service = "other" /\ verifier.region = "eu-west-1"

\* C11 - Verified bytes equal delivered bytes: once the canonical request
\* of a request that had a body is built, and from then on through verify
\* and after it, the stream has ended and was read to its end, the
\* request's body is all the bytes the stream delivered, in arrival order,
\* and the Body in the state, and in the state the outcome carries, holds
\* the same bytes.
C11_VerifiedBytesAreDelivered ==
    \A r \in Reqs :
        (HasBody(r) /\ Ran(r, "assemble")) =>
            /\ producer[r] = "ended" /\ chan[r] = <<>>
            /\ request[r].body = sent[r]
            /\ sent[r] = [i \in 1 .. Len(sent[r]) |-> i]
            /\ st[r].body = [kind |-> "full", bytes |-> request[r].body]
            /\ pc[r] = "done" =>
                  outcome[r].state.body = [kind |-> "full", bytes |-> request[r].body]

\* verify has been called on a request built from a body of two chunks.
C11_Witness ==
    \E r \in Reqs :
        /\ HasBody(r) /\ Ran(r, "verify") /\ nChunks[r] = 2
        /\ request[r].body = << 1, 2 >> /\ st[r].body.bytes = << 1, 2 >>

\* C12 - No-body case: for a request whose state holds no Body, call never
\* drains, the buffer and the body of the canonical request are empty, the
\* state holds no Body at any step and in the outcome, whether the outcome
\* is the next stage's or a failure, and call does not return without
\* having called verify.
C12_NoBodyCase ==
    \A r \in Reqs :
        input[r].body.kind = "none" =>
            /\ pc[r] # "drain"
            /\ buf[r] = <<>>
            /\ st[r].body.kind = "none"
            /\ Ran(r, "assemble") => request[r].body = <<>>
            /\ pc[r] \in {"chain", "done"} => Ran(r, "verify")
            /\ pc[r] = "done" =>
                  /\ outcome[r].kind \in {"ok", "err"}
                  /\ outcome[r].status \in {200, 401}
                  /\ outcome[r].state.body.kind = "none"

\* Two requests without a body are over: one reached the next stage, the
\* other was refused.
C12_Witness ==
    \E r, q \in Reqs :
        /\ input[r].body.kind = "none" /\ pc[r] = "done" /\ outcome[r].kind = "ok"
        /\ input[q].body.kind = "none" /\ pc[q] = "done" /\ outcome[q].status = 401
        /\ Ran(r, "verify") /\ Ran(q, "verify")

\* The values of the entries named name, in the order of the collection.
ValuesOf(header_map, name) ==
    LET named == SelectSeq(header_map, LAMBDA h : h.name = name)
    IN [i \in 1 .. Len(named) |-> named[i].value]

\* C13 - Header flattening: the headers of the canonical request have
\* exactly the names of the header collection, as they are written there,
\* and under each name all the values of the entries with that name, in
\* the order of the collection, repeated values included.
C13_HeaderFlattening ==
    \A r \in Reqs :
        Ran(r, "assemble") =>
            LET header_map == input[r].header_map
            IN /\ DOMAIN request[r].headers =
                      {header_map[i].name : i \in 1 .. Len(header_map)}
               /\ \A name \in DOMAIN request[r].headers :
                      request[r].headers[name] = ValuesOf(header_map, name)

\* A request was built from a collection where x-tag comes twice, with
\* different values, around an entry named X-Tag.
C13_Witness ==
    \E r \in Reqs :
        /\ Ran(r, "assemble")
        /\ input[r].header_map =
              << Header("x-tag", "b"), Header("X-Tag", "b"), Header("x-tag", "a") >>
        /\ request[r].headers["x-tag"] = << "b", "a" >>
        /\ request[r].headers["X-Tag"] = << "b" >>

\* C14 - Configuration pass-through: verify is called with the kind of
\* key, the lookup function and the allowed mismatch the verifier was built
\* with, and the region and the service of the canonical request are those
\* the verifier was built with, whatever the request names.
C14_ConfigPassThrough ==
    \A r \in Reqs :
        Ran(r, "verify") =>
            /\ vcall[r].kind = ctor.kind
            /\ vcall[r].fn = ctor.fn
            /\ vcall[r].mismatch = ctor.mismatch
            /\ request[r].region = ctor.region
            /\ request[r].service = ctor.service

\* verify was called, with a kind of key and a mismatch that are not the
\* defaults, for a request whose path, query and credential scope name
\* another region and service than the configured ones.
C14_Witness ==
    \E r \in Reqs :
        /\ Ran(r, "verify") /\ input[r].header_map = ScopedHeaders
        /\ ctor.kind = "KDate" /\ ctor.mismatch = [some |-> TRUE, val |-> 0]
        /\ ctor.region = "us-east-1" /\ ctor.service = "service"
        /\ vcall[r].kind = "KDate" /\ request[r].region = "us-east-1"

\* The key of a stage, derived from the secret by the stages before it.
StageKey(kind, date, region, service) ==
    LET secret == << "AWS4wJalrXUtnFEMI/K7MDENG+bPxRfiCYEXAMPLEKEY" >>
    IN CASE kind = "KSecret"  -> secret
         [] kind = "KDate"    -> secret \o << date >>
         [] kind = "KRegion"  -> secret \o << date, region >>
         [] kind = "KService" -> secret \o << date, region, service >>
         [] kind = "KSigning" -> secret \o << date, region, service, "aws4_request" >>

\* The stages that remain after the key of a kind, completed from that key.
CompleteFrom(kind, key, date, region, service) ==
    CASE kind = "KSecret"  -> Hmac(Hmac(Hmac(Hmac(key, date), region), service), "aws4_request")
      [] kind = "KDate"    -> Hmac(Hmac(Hmac(key, region), service), "aws4_request")
      [] kind = "KRegion"  -> Hmac(Hmac(key, service), "aws4_request")
      [] kind = "KService" -> Hmac(key, "aws4_request")
      [] kind = "KSigning" -> key

\* C15 - Derivation-shortcut equivalence: called with a date, a region and
\* a service, get_signing_key returns the secret for KSecret and for each
\* later kind the HMAC of the stage before with that stage's input, and
\* the stages that remain, completed from the key it returned, give the
\* key it returns for KSigning.
C15_DerivationShortcut ==
    (/\ lookup.called
     /\ lookup.req_date_opt.some /\ lookup.region_opt.some /\ lookup.service_opt.some) =>
        LET date == lookup.req_date_opt.val
            region == lookup.region_opt.val
            service == lookup.service_opt.val
            direct == GetSigningKey("KSigning", lookup.access_key_id,
                                    lookup.session_token, lookup.req_date_opt,
                                    lookup.region_opt, lookup.service_opt)
        IN /\ lookup.result.ok
           /\ lookup.result.key = StageKey(lookup.kind, date, region, service)
           /\ direct.ok
           /\ CompleteFrom(lookup.kind, lookup.result.key, date, region, service)
                 = direct.key

\* The region's key was asked for, with a date, a region and a service.
C15_Witness ==
    /\ lookup.called /\ lookup.kind = "KRegion"
    /\ lookup.req_date_opt.some /\ lookup.region_opt.some /\ lookup.service_opt.some
    /\ lookup.region_opt.val = "eu-west-1" /\ lookup.service_opt.val = "service"
    /\ lookup.result.ok /\ Len(lookup.result.key) = 3

C17_NoBodyAfterReadFailure ==
    \A r \in Reqs :
        PolledErr(r) =>
            /\ st[r].body.kind = "none"
            /\ outcome[r].state.body.kind = "none"
            /\ outcome[r].state.body.bytes = <<>>
            /\ outcome[r].state = [input[r] EXCEPT !.body = [kind |-> "none", bytes |-> <<>>]]

\* The stream failed after two chunks had been buffered; the outcome's
\* state holds no Body.
C17_Witness ==
    \E r \in Reqs :
        /\ PolledErr(r) /\ buf[r] = << 1, 2 >> /\ nChunks[r] = 2
        /\ outcome[r].state.body.kind = "none"

====
